---------------------------- MODULE Spec2Model ----------------------------
(***************************************************************************)
(* A model of the map viewer's rendering engine (class MapRenderer of      *)
(* src/render.js, the second and effective class definition of the file)   *)
(* as a state machine: the renderer's fields are the variables, and each   *)
(* public method, called as the handlers of src/app.js call it, is one     *)
(* action (Spec); and of the application around it, class MapApp of        *)
(* src/app.js: its start-up, the loading of map files, one action per      *)
(* stretch of code between two awaits, and its handlers (SpecApp).         *)
(*                                                                         *)
(* Numbers.  JavaScript numbers are IEEE 754 binary64 values and are       *)
(* modelled bit for bit.  A number is a record [c, s, e, h, l]:            *)
(*   c = "num"  : the finite non-zero value (-1)^s * M * 2^(e - 52) with   *)
(*                the mantissa M = h * 2^28 + l, 2^52 <= M < 2^53 (so e is *)
(*                the exponent of the leading bit; a subnormal value has   *)
(*                e < -1022 and is a multiple of 2^-1074);                 *)
(*   c = "zero" : the zero of sign s;                                      *)
(*   c = "inf"  : the infinity of sign s;                                  *)
(*   c = "nan"  : NaN.                                                     *)
(* Every operation computes its result exactly, as an integer in two       *)
(* halves of 28 bits with a sticky flag for what lies below, and rounds it *)
(* once to the nearest double, ties to even, as the hardware does; every   *)
(* intermediate value stays below 2^31.                                    *)
(***************************************************************************)
EXTENDS Integers, Sequences, FiniteSets, TLC

\* null, where the program holds an object or null
Null == [null |-> TRUE]

\* ------------------------------------------------------------------------
\* Number arithmetic (the semantics of JavaScript's +, -, *, /, <, ===,
\* Math.min, Math.max, Math.abs, Math.sqrt on doubles)
\* ------------------------------------------------------------------------

\* the base of the halves of a mantissa: 2^28
Half == 268435456

\* the base of the limbs of a product: 2^14
Limb == 16384

NaN == [c |-> "nan", s |-> 0, e |-> 0, h |-> 0, l |-> 0]

Inf(s) == [c |-> "inf", s |-> s, e |-> 0, h |-> 0, l |-> 0]

Zero(s) == [c |-> "zero", s |-> s, e |-> 0, h |-> 0, l |-> 0]

Infinity == Inf(0)

NegInfinity == Inf(1)

\* the number of bits of the integer x >= 0
RECURSIVE Bits(_)
Bits(x) ==
  IF x >= 256 THEN 8 + Bits(x \div 256)
  ELSE IF x >= 16 THEN 4 + Bits(x \div 16)
  ELSE IF x >= 4 THEN 2 + Bits(x \div 4)
  ELSE IF x >= 2 THEN 2 ELSE x

\* An integer X >= 0 is held as two halves, X = Xh * 2^28 + Xl, Xl < 2^28.
\* the number of bits of X
BitLen(Xh, Xl) == IF Xh = 0 THEN Bits(Xl) ELSE 28 + Bits(Xh)

\* floor(X / 2^n)
Shr(Xh, Xl, n) ==
  IF n >= 59 THEN [h |-> 0, l |-> 0]
  ELSE IF n >= 28 THEN [h |-> 0, l |-> Xh \div 2^(n - 28)]
  ELSE [h |-> Xh \div 2^n, l |-> Xl \div 2^n + (Xh % 2^n) * 2^(28 - n)]

\* whether X has a bit set among its lowest n
Low(Xh, Xl, n) ==
  IF n >= 59 THEN Xh # 0 \/ Xl # 0
  ELSE IF n >= 28 THEN Xl # 0 \/ Xh % 2^(n - 28) # 0
  ELSE Xl % 2^n # 0

\* X * 2^n, for a product below 2^59
Shl(Xh, Xl, n) ==
  IF n >= 28 THEN [h |-> Xl * 2^(n - 28), l |-> 0]
  ELSE [h |-> Xh * 2^n + Xl \div 2^(28 - n), l |-> (Xl % 2^(28 - n)) * 2^n]

IMax(a, b) == IF a >= b THEN a ELSE b

\* the two halves of h * 2^28 + l, where l may be negative or 2^28 and more
Carry(h, l) == [h |-> h + l \div Half, l |-> l % Half]

\* whether X >= Y, X and Y in halves
Geq(X, Y) == X.h > Y.h \/ (X.h = Y.h /\ X.l >= Y.l)

\* the finite non-zero double of sign s, exponent E and mantissa M
Pack(s, E, M) == [c |-> "num", s |-> s, e |-> E, h |-> M.h, l |-> M.l]

\* the double (-1)^s * q * 2^ex of an integer q of LL bits, 53 at most but
\* for a q that rounding has taken to 2^53
Normal(s, q, ex, LL) ==
  IF LL = 0 THEN Zero(s)
  ELSE IF ex + LL - 1 > 1023 THEN Inf(s)
  ELSE Pack(s, ex + LL - 1,
            IF LL <= 53 THEN Shl(q.h, q.l, 53 - LL)
            ELSE Shr(q.h, q.l, LL - 53))

\* q, or q + 1 if up
RoundUp(q, up) == IF up THEN Carry(q.h, q.l + 1) ELSE q

\* whether X + f, cut to q = floor(X / 2^n), is rounded up: the first bit
\* cut off is set, and a bit below it or the last bit of q is
RoundsUp(Xh, Xl, n, sticky, q) ==
  /\ n > 0
  /\ Shr(Xh, Xl, n - 1).l % 2 = 1
  /\ sticky \/ (n > 1 /\ Low(Xh, Xl, n - 1)) \/ q.l % 2 = 1

\* the double nearest to (-1)^s * X * 2^ex where q is X with its lowest n
\* bits rounded off
Rounded(s, q, ex) == Normal(s, q, ex, BitLen(q.h, q.l))

\* the double nearest to (-1)^s * (X + f) * 2^ex with the lowest n bits of X
\* rounded off
RoundOff(s, Xh, Xl, ex, sticky, n) ==
  Rounded(s, RoundUp(Shr(Xh, Xl, n),
                     RoundsUp(Xh, Xl, n, sticky, Shr(Xh, Xl, n))), ex + n)

\* the double nearest to (-1)^s * (X + f) * 2^ex, ties to even, where
\* 0 < X < 2^59 and 0 <= f < 1 with f > 0 iff sticky; X has 55 bits or more
\* if sticky.  The bits of X beyond 53, and those below 2^-1074, are
\* rounded off.
RoundPack(s, Xh, Xl, ex, sticky) ==
  RoundOff(s, Xh, Xl, ex, sticky,
           IMax(IMax(BitLen(Xh, Xl) - 53, -1074 - ex), 0))

\* the integer i as a double
N(i) ==
  IF i = 0 THEN Zero(0)
  ELSE IF i < 0 THEN RoundPack(1, (-i) \div Half, (-i) % Half, 0, FALSE)
  ELSE RoundPack(0, i \div Half, i % Half, 0, FALSE)

Neg(a) == IF a.c = "nan" THEN a ELSE [a EXCEPT !.s = 1 - a.s]

MathAbs(a) == IF a.c = "nan" THEN a ELSE [a EXCEPT !.s = 0]

\* the mantissa of a with three more bits
Wide(a) ==
  [h |-> a.h * 8 + a.l \div 33554432, l |-> (a.l % 33554432) * 8]

\* sh with its lowest bit set if low: the sticky bit of a shift
Sticky(sh, low) ==
  [h |-> sh.h, l |-> IF low /\ sh.l % 2 = 0 THEN sh.l + 1 ELSE sh.l]

\* B shifted right by d bits, the bits shifted out kept as a sticky lowest
\* bit
Aligned(B, d) == Sticky(Shr(B.h, B.l, d), Low(B.h, B.l, d))

\* the sum of (-1)^sa * A * 2^ex and (-1)^sb * C * 2^ex
AddAligned(sa, sb, A, C, ex) ==
  IF sa = sb
  THEN RoundPack(sa, A.h + C.h + (A.l + C.l) \div Half, (A.l + C.l) % Half,
                 ex, FALSE)
  ELSE IF A = C THEN Zero(0)
  ELSE IF Geq(A, C)
  THEN RoundPack(sa, A.h - C.h + (A.l - C.l) \div Half, (A.l - C.l) % Half,
                 ex, FALSE)
  ELSE RoundPack(sb, C.h - A.h + (C.l - A.l) \div Half, (C.l - A.l) % Half,
                 ex, FALSE)

\* the sum of two finite non-zero doubles, the exponent of a not below b's:
\* the mantissas are taken with three more bits, b's shifted to the exponent
\* of a
AddNum(a, b) ==
  AddAligned(a.s, b.s, Wide(a), Aligned(Wide(b), a.e - b.e), a.e - 55)

Add(a, b) ==
  IF a.c = "nan" \/ b.c = "nan" THEN NaN
  ELSE IF a.c = "inf"
  THEN IF b.c = "inf" /\ a.s # b.s THEN NaN ELSE a
  ELSE IF b.c = "inf" THEN b
  ELSE IF a.c = "zero"
  THEN IF b.c = "zero" THEN Zero(IF a.s = 1 /\ b.s = 1 THEN 1 ELSE 0) ELSE b
  ELSE IF b.c = "zero" THEN a
  ELSE IF a.e >= b.e THEN AddNum(a, b) ELSE AddNum(b, a)

Sub(a, b) == Add(a, Neg(b))

Xor(s, t) == IF s = t THEN 0 ELSE 1

\* the four limbs of 14 bits of a mantissa, the lowest first
Limbs(a) == << a.l % Limb, a.l \div Limb, a.h % Limb, a.h \div Limb >>

\* the columns of the product of two mantissas in limbs, the lowest first
Columns(A, B) ==
  << A[1] * B[1],
     A[1] * B[2] + A[2] * B[1],
     A[1] * B[3] + A[2] * B[2] + A[3] * B[1],
     A[1] * B[4] + A[2] * B[3] + A[3] * B[2] + A[4] * B[1],
     A[2] * B[4] + A[3] * B[3] + A[4] * B[2],
     A[3] * B[4] + A[4] * B[3],
     A[4] * B[4] >>

\* the columns from k on with the carries added, t those below k
RECURSIVE Carried(_, _, _)
Carried(col, t, k) ==
  IF k > Len(col) THEN t
  ELSE Carried(col,
               Append(t, col[k] + IF k = 1 THEN 0 ELSE t[k - 1] \div Limb),
               k + 1)

\* the double of the product P, below 2^106, of two mantissas, given as its
\* columns t with the carries added: the bits of P from 50 up are kept and
\* the lower ones are the sticky flag
MulPack(s, t, ex) ==
  RoundPack(s,
            (t[6] % Limb) \div 256 + t[7] * 64,
            (t[4] % Limb) \div 256 + (t[5] % Limb) * 64
              + ((t[6] % Limb) % 256) * 1048576,
            ex,
            t[1] % Limb # 0 \/ t[2] % Limb # 0 \/ t[3] % Limb # 0
              \/ (t[4] % Limb) % 256 # 0)

\* the product of two finite non-zero doubles
MulNum(a, b) ==
  MulPack(Xor(a.s, b.s), Carried(Columns(Limbs(a), Limbs(b)), << >>, 1),
          a.e + b.e - 54)

Mul(a, b) ==
  IF a.c = "nan" \/ b.c = "nan" THEN NaN
  ELSE IF a.c = "inf" \/ b.c = "inf"
  THEN IF a.c = "zero" \/ b.c = "zero" THEN NaN ELSE Inf(Xor(a.s, b.s))
  ELSE IF a.c = "zero" \/ b.c = "zero" THEN Zero(Xor(a.s, b.s))
  ELSE MulNum(a, b)

\* the state of the long division after a step that leaves the remainder r
\* and adds the digit q2 to the quotient
DivNext(t, r, q2) ==
  [rh |-> r.h, rl |-> r.l, qh |-> 8 * t.qh + q2 \div Half,
   ql |-> q2 % Half, k |-> t.k - 1]

\* the remainder taken 8 times less qe times D is r: the digit is qe, or
\* qe + 1 if r is not below D
DivCorrect(t, dh, dl, qe, r) ==
  IF r.h > dh \/ (r.h = dh /\ r.l >= dl)
  THEN DivNext(t, Carry(r.h - dh, r.l - dl), 8 * t.ql + qe + 1)
  ELSE DivNext(t, r, 8 * t.ql + qe)

\* the step with the digit estimated qe, the remainder taken 8 times R8
DivDigit(t, dh, dl, R8, qe) ==
  DivCorrect(t, dh, dl, qe, Carry(R8.h - qe * dh, R8.l - qe * dl))

\* the step for the remainder taken 8 times R8
DivEstimate(t, dh, dl, R8) == DivDigit(t, dh, dl, R8, R8.h \div (dh + 1))

\* one step of the long division by D = (dh, dl), three bits of the quotient
\* at a time: the remainder (rh, rl), below D, is taken 8 times; the digit
\* estimated from the high halves is the digit or one below it; (qh, ql) is
\* the quotient so far, k counts the steps to come
DivStep(t, dh, dl) == DivEstimate(t, dh, dl, Carry(8 * t.rh, 8 * t.rl))

\* the steps up to the next multiple of 6, and all the steps
RECURSIVE DivSteps(_, _, _)
DivSteps(t, dh, dl) ==
  IF t.k % 6 = 0 THEN t ELSE DivSteps(DivStep(t, dh, dl), dh, dl)

RECURSIVE DivDigits(_, _, _)
DivDigits(t, dh, dl) ==
  IF t.k = 0 THEN t
  ELSE DivDigits(DivSteps(DivStep(t, dh, dl), dh, dl), dh, dl)

\* the long division of the mantissa of a by that of b at its start: the
\* first bit of the quotient and the remainder it leaves, 18 steps to come
DivStart(a, b) ==
  IF a.h > b.h \/ (a.h = b.h /\ a.l >= b.l)
  THEN [rh |-> a.h - b.h + (a.l - b.l) \div Half, rl |-> (a.l - b.l) % Half,
        qh |-> 0, ql |-> 1, k |-> 18]
  ELSE [rh |-> a.h, rl |-> a.l, qh |-> 0, ql |-> 0, k |-> 18]

\* the double of the quotient q with its remainder as the sticky flag
DivPack(s, q, ex) == RoundPack(s, q.qh, q.ql, ex, q.rh # 0 \/ q.rl # 0)

\* the quotient of two finite non-zero doubles: floor(Ma * 2^54 / Mb) of the
\* mantissas, the remainder being the sticky flag
DivNum(a, b) ==
  DivPack(Xor(a.s, b.s), DivDigits(DivStart(a, b), b.h, b.l),
          a.e - b.e - 54)

Div(a, b) ==
  IF a.c = "nan" \/ b.c = "nan" THEN NaN
  ELSE IF a.c = "inf"
  THEN IF b.c = "inf" THEN NaN ELSE Inf(Xor(a.s, b.s))
  ELSE IF b.c = "inf" THEN Zero(Xor(a.s, b.s))
  ELSE IF b.c = "zero"
  THEN IF a.c = "zero" THEN NaN ELSE Inf(Xor(a.s, b.s))
  ELSE IF a.c = "zero" THEN Zero(Xor(a.s, b.s))
  ELSE DivNum(a, b)

\* the pair of bits j of X = (xh, xl), zero below the lowest
SqrtPair(xh, xl, j) ==
  IF j < 0 THEN 0
  ELSE IF j < 14 THEN (xl \div 4^j) % 4
  ELSE (xh \div 4^(j - 14)) % 4

\* the state of the square root after a step that leaves the remainder m
\* and adds the bit r2 to the root
SqrtNext(t, m, r2) ==
  [mh |-> m.h, ml |-> m.l, rh |-> 2 * t.rh + r2 \div Half,
   rl |-> r2 % Half, k |-> t.k - 1]

\* the step for the remainder with the next pair of bits T and the trial
\* subtrahend S, four times the root plus one
SqrtTry(t, T, S) ==
  IF Geq(T, S)
  THEN SqrtNext(t, Carry(T.h - S.h, T.l - S.l), 2 * t.rl + 1)
  ELSE SqrtNext(t, T, 2 * t.rl)

\* one step of the digit by digit square root of X * 4^28, X = (xh, xl):
\* (rh, rl) is the root and (mh, ml) the remainder so far, k counts the
\* pairs of bits to come, the last 28 of them zeros
SqrtStep(t, xh, xl) ==
  SqrtTry(t, Carry(4 * t.mh, 4 * t.ml + SqrtPair(xh, xl, t.k - 29)),
          Carry(4 * t.rh, 4 * t.rl + 1))

RECURSIVE SqrtSteps(_, _, _)
SqrtSteps(t, xh, xl) ==
  IF t.k % 7 = 0 THEN t ELSE SqrtSteps(SqrtStep(t, xh, xl), xh, xl)

RECURSIVE SqrtBits(_, _, _)
SqrtBits(t, xh, xl) ==
  IF t.k = 0 THEN t
  ELSE SqrtBits(SqrtSteps(SqrtStep(t, xh, xl), xh, xl), xh, xl)

\* the double of the root q with its remainder as the sticky flag
SqrtPack(q, ex) == RoundPack(0, q.rh, q.rl, ex, q.mh # 0 \/ q.ml # 0)

\* the square root of X * 2^t, t even
SqrtNum(X, t) ==
  SqrtPack(SqrtBits([mh |-> 0, ml |-> 0, rh |-> 0, rl |-> 0, k |-> 56],
                    X.h, X.l),
           t \div 2 - 28)

MathSqrt(a) ==
  IF a.c = "nan" THEN NaN
  ELSE IF a.c = "zero" THEN a
  ELSE IF a.s = 1 THEN NaN
  ELSE IF a.c = "inf" THEN a
  ELSE IF (a.e - 52) % 2 = 1 THEN SqrtNum(Shl(a.h, a.l, 1), a.e - 53)
  ELSE SqrtNum([h |-> a.h, l |-> a.l], a.e - 52)

\* -1, 0 or 1; 0 for NaN
Sign(a) ==
  IF a.c = "nan" \/ a.c = "zero" THEN 0 ELSE IF a.s = 1 THEN -1 ELSE 1

\* zeros before finite numbers before the infinities
Rank(a) == IF a.c = "zero" THEN 0 ELSE IF a.c = "num" THEN 1 ELSE 2

\* the order of the magnitudes of two doubles that are not NaN: -1, 0 or 1
CmpMag(a, b) ==
  IF Rank(a) # Rank(b) THEN (IF Rank(a) < Rank(b) THEN -1 ELSE 1)
  ELSE IF a.c # "num" THEN 0
  ELSE IF a.e # b.e THEN (IF a.e < b.e THEN -1 ELSE 1)
  ELSE IF a.h # b.h THEN (IF a.h < b.h THEN -1 ELSE 1)
  ELSE IF a.l # b.l THEN (IF a.l < b.l THEN -1 ELSE 1)
  ELSE 0

\* the order of two doubles that are not NaN; the zeros are equal
Cmp(a, b) ==
  IF Sign(a) # Sign(b) THEN (IF Sign(a) < Sign(b) THEN -1 ELSE 1)
  ELSE IF Sign(a) = 0 THEN 0
  ELSE Sign(a) * CmpMag(a, b)

Lt(a, b) == a.c # "nan" /\ b.c # "nan" /\ Cmp(a, b) < 0

Gt(a, b) == Lt(b, a)

Le(a, b) == a.c # "nan" /\ b.c # "nan" /\ Cmp(a, b) <= 0

StrictEq(a, b) == a.c # "nan" /\ b.c # "nan" /\ Cmp(a, b) = 0

MathMin(a, b) ==
  IF a.c = "nan" \/ b.c = "nan" THEN NaN
  ELSE IF Lt(a, b) THEN a
  ELSE IF Lt(b, a) THEN b
  ELSE IF a.s = 1 THEN a ELSE b

MathMax(a, b) ==
  IF a.c = "nan" \/ b.c = "nan" THEN NaN
  ELSE IF Lt(b, a) THEN a
  ELSE IF Lt(a, b) THEN b
  ELSE IF a.s = 0 THEN a ELSE b

\* the double nearest to the fraction p / q of two integers: the value of a
\* decimal literal such as 0.1 or 1.2
R(p, q) == Div(N(p), N(q))

IsNaN(a) == a.c = "nan"

IsFinite(a) == a.c = "num" \/ a.c = "zero"

\* ------------------------------------------------------------------------
\* Map documents: the parsed JSON a loader hands to loadData
\*   {offset: {x, y, z}, roadLine: [{RoadId?, BoundaryPoints: [{x, y,
\*    LineColor?, LineType?}, ...]}, ...]}
\* ------------------------------------------------------------------------

\* an absent string attribute
Undefined == "undefined"

\* a boundary point without style attributes
P(px, py) ==
  [x |-> px, y |-> py, LineColor |-> Undefined, LineType |-> Undefined]

\* a boundary point with LineColor c and LineType t
PS(px, py, c, t) == [x |-> px, y |-> py, LineColor |-> c, LineType |-> t]

Road(id, pts) == [RoadId |-> id, BoundaryPoints |-> pts]

\* the coordinate 2e12, beyond the outlier threshold
Far == Mul(N(2000000), N(1000000))

\* a non-zero offset and two roads on one horizontal line, the first from
\* (100,100) to (110,100): a bounding box of zero height
DocOffset ==
  [offset |-> [x |-> N(100), y |-> N(100)],
   roadLine |-> <<
     Road("R1", << P(N(100), N(100)), P(N(110), N(100)) >>),
     Road("R2", << P(N(115), N(100)), P(N(118), N(100)) >>) >>]

\* no offset; the first two roads meet at (10,0), the second and the third
\* end at (10,5); the first and the third share the RoadId "R1"; then a road
\* of two equal points, a road of outlier points, a road of one point and a
\* road of no point, the last three without RoadId
DocCross ==
  [offset |-> Null,
   roadLine |-> <<
     Road("R1", << PS(N(0), N(0), "white", "solid"), P(N(10), N(0)) >>),
     Road("R2", << PS(N(10), N(0), "standard", "broken"), P(N(10), N(5)) >>),
     Road("R1", << P(N(0), N(5)), P(N(10), N(5)) >>),
     Road("R4", << P(N(0), N(2)), P(N(0), N(2)) >>),
     Road(Undefined, << PS(Far, N(0), "blue", "solid"), P(Far, N(5)) >>),
     Road(Undefined, << P(N(0), N(5)) >>),
     Road(Undefined, << >>) >>]

\* one road of one point: a bounding box of zero width and zero height
DocPoint ==
  [offset |-> [x |-> N(0), y |-> N(0)],
   roadLine |-> << Road("R1", << P(N(3), N(4)) >>) >>]

\* every point is an outlier
DocOutliers ==
  [offset |-> [x |-> N(0), y |-> N(0)],
   roadLine |-> << Road("R1", << P(Far, N(0)), P(Far, N(5)) >>) >>]

\* an empty roadLine
DocEmpty == [offset |-> [x |-> N(0), y |-> N(0)], roadLine |-> << >>]

\* the documents a loader may deliver
MapFiles == {DocOffset, DocCross, DocPoint, DocOutliers, DocEmpty}

\* ------------------------------------------------------------------------
\* The renderer's state
\* ------------------------------------------------------------------------

VARIABLES
  data,           \* this.data: the loaded document, or Null
  offset,         \* this.offset
  minX, maxX,     \* the bounds, in offset-adjusted world coordinates
  minY, maxY,
  scale,          \* the view state
  translateX,
  translateY,
  showGrid,       \* this.showGrid
  selectedRoad,   \* this.selectedRoad: Null, or the road object referred to:
                  \*   [road: the object's value, idx: its place in the
                  \*    roadLine of its document, current: whether that
                  \*    document is the object this.data refers to]
  clientWidth,    \* this.canvas.clientWidth: the size the page layout gives
  clientHeight,   \* this.canvas.clientHeight   the canvas, in CSS pixels
  canvasWidth,    \* this.canvas.width: the size of the canvas bitmap
  canvasHeight,   \* this.canvas.height
  frame,          \* what the last draw() put on the canvas, Null before it
  loadView,       \* the view state and the canvas size when the last
                  \* loadData() returned, Null before the first
  calls,          \* how many events of each counted kind there were so far
  requests,       \* the calls of MapApp.loadMapFile so far, in the order they
                  \* were made: [file: the name asked for, stage: "fetch"
                  \* while fetch() is awaited, "json" while response.json()
                  \* is awaited, "done" after the call has loaded the
                  \* document, "failed" after it has reported a failure]
  index,          \* where MapApp.init() is: "fetch" while loadMapIndex awaits
                  \* its fetch(), "json" while it awaits response.json(),
                  \* "done" after handleUrlParams has run
  mapOptions,     \* the file names among the options of the map list; as
                  \* the page comes they are taken to be the two known maps
  status,         \* the text of the status element
  infoPanel,      \* the road information the panel shows, Null while hidden
  urlFile         \* the 'file' parameter of the page URL, "" if absent

\* the state of the renderer
rendererVars ==
  << data, offset, minX, maxX, minY, maxY, scale, translateX, translateY,
     showGrid, selectedRoad, clientWidth, clientHeight, canvasWidth,
     canvasHeight, frame, loadView, calls >>

\* the state of the application around it
appVars == << requests, index, mapOptions, status, infoPanel, urlFile >>

vars == << rendererVars, appVars >>

\* the outlier threshold 1e12 of calculateBounds
REASONABLE_LIMIT == Mul(N(1000000), N(1000000))

\* the 10% margin of fitBounds
padding == R(1, 10)

\* the 'file' parameter of a URL that has none (null) or an empty one: the
\* values handleUrlParams takes as false
NoFile == ""

\* the options of fallbackMapList, in their order
knownMaps ==
  << "AITownReconstructed_V0103_200518.xodr.json", "GESM2.xodr.json" >>

\* the pick radius of selectRoadAt, in pixels
PickPixels == 5

\* window.devicePixelRatio
devicePixelRatio == 1

\* setupCanvas(): the size of the bitmap for a canvas laid out w by h
setupCanvas(w, h) ==
  [width |-> w * devicePixelRatio, height |-> h * devicePixelRatio]

\* the bounds before any point is folded in: the empty sentinel
EmptyBounds ==
  [minX |-> Infinity, maxX |-> NegInfinity,
   minY |-> Infinity, maxY |-> NegInfinity]

\* the boundary points of all roads, in the order forEach visits them
RECURSIVE AllPoints(_)
AllPoints(roads) ==
  IF roads = << >> THEN << >>
  ELSE Head(roads).BoundaryPoints \o AllPoints(Tail(roads))

\* the step with the outlier test made on the x coordinate only
FoldPoint_XOnly(b, point, off) ==
  LET x == Sub(point.x, off.x)
      y == Sub(point.y, off.y)
  IN  IF Gt(MathAbs(x), REASONABLE_LIMIT)
      THEN b
      ELSE [minX |-> MathMin(b.minX, x), maxX |-> MathMax(b.maxX, x),
            minY |-> MathMin(b.minY, y), maxY |-> MathMax(b.maxY, y)]

\* one step of the inner forEach of calculateBounds
FoldPoint(b, point, off) ==
  LET x == Sub(point.x, off.x)
      y == Sub(point.y, off.y)
  IN  IF Gt(MathAbs(x), REASONABLE_LIMIT) \/ Gt(MathAbs(y), REASONABLE_LIMIT)
      THEN b
      ELSE [minX |-> MathMin(b.minX, x), maxX |-> MathMax(b.maxX, x),
            minY |-> MathMin(b.minY, y), maxY |-> MathMax(b.maxY, y)]

RECURSIVE FoldBounds(_, _, _)
FoldBounds(b, pts, off) ==
  IF pts = << >> THEN b
  ELSE FoldBounds(FoldPoint(b, Head(pts), off), Tail(pts), off)

\* calculateBounds(): the bounds of document doc under offset off
calculateBounds(doc, off) ==
  IF doc = Null THEN EmptyBounds
  ELSE FoldBounds(EmptyBounds, AllPoints(doc.roadLine), off)

\* the computation of fitBounds after its guard
FitView(b, w, h) ==
  LET mapWidth == Sub(b.maxX, b.minX)
      mapHeight == Sub(b.maxY, b.minY)
      scaleX == Div(Mul(w, Sub(N(1), padding)), mapWidth)
      scaleY == Div(Mul(h, Sub(N(1), padding)), mapHeight)
      s == MathMin(scaleX, scaleY)
      scaledMapWidth == Mul(mapWidth, s)
      scaledMapHeight == Mul(mapHeight, s)
  IN  [scale |-> s,
       translateX |->
         Sub(Div(Sub(w, scaledMapWidth), N(2)), Mul(b.minX, s)),
       translateY |->
         Sub(Div(Sub(h, scaledMapHeight), N(2)), Mul(b.minY, s)),
       drew |-> TRUE]

\* fitBounds with the scale fitted and the translation left as it is
fitBounds_KeepTranslate(b, w, h, v) ==
  IF StrictEq(b.minX, Infinity)
  THEN [scale |-> v.scale, translateX |-> v.translateX,
        translateY |-> v.translateY, drew |-> FALSE]
  ELSE [scale |-> FitView(b, w, h).scale, translateX |-> v.translateX,
        translateY |-> v.translateY, drew |-> TRUE]

\* fitBounds without the guard against empty bounds
fitBounds_NoGuard(b, w, h, v) == FitView(b, w, h)

\* fitBounds(): the view after the call, and whether it drew, for bounds b,
\* a canvas of w by h pixels and the view v before the call
fitBounds(b, w, h, v) ==
  IF StrictEq(b.minX, Infinity)
  THEN [scale |-> v.scale, translateX |-> v.translateX,
        translateY |-> v.translateY, drew |-> FALSE]
  ELSE FitView(b, w, h)

\* worldToCanvas(x, y) under offset off, view v and canvas height h
worldToCanvas(x, y, off, v, h) ==
  [x |-> Add(Mul(Sub(x, off.x), v.scale), v.translateX),
   y |-> Sub(h, Add(Mul(Sub(y, off.y), v.scale), v.translateY))]

\* canvasToWorld(canvasX, canvasY) under view v and canvas height h
canvasToWorld(canvasX, canvasY, v, h) ==
  [x |-> Div(Sub(canvasX, v.translateX), v.scale),
   y |-> Div(Sub(Sub(h, canvasY), v.translateY), v.scale)]

\* whether a string attribute is truthy
Truthy(str) == str # Undefined /\ str # ""

\* drawRoadLine(road, ctx): what the call strokes for the road at place i of
\* the roadLine, Null if the road has fewer than 2 points.  The stroke is
\* the polyline through the road's points, the arrow from its first to its
\* second point in the stroke colour, and the label at its middle point, all
\* projected by worldToCanvas under the view the frame records.
drawRoadLine(road, i, sel) ==
  LET pts == road.BoundaryPoints
      firstPoint == pts[1]
      highlight == sel # Null /\ sel.road.RoadId = road.RoadId
  IN  IF Len(pts) < 2 THEN Null
      ELSE [road |-> i,
            lineWidth |-> IF highlight THEN 4 ELSE 2,
            strokeStyle |->
              IF highlight THEN "lime"
              ELSE IF firstPoint.LineColor = "white" THEN "white"
              ELSE IF firstPoint.LineColor = "standard" THEN "gray"
              ELSE "white",
            lineDash |->
              IF highlight THEN << >>
              ELSE IF firstPoint.LineType = "broken" THEN << 5, 5 >>
              ELSE << >>,
            label |-> IF Truthy(road.RoadId) THEN road.RoadId ELSE Undefined]

\* draw(): the content of the canvas after the call: the bitmap of w by h
\* pixels cleared, the grid if shown, over the cw by ch pixels the layout
\* gives the canvas, and the roads of doc drawn in roadLine order under
\* offset off, view v and the height ch
draw(doc, off, v, w, h, cw, ch, grid, sel) ==
  [grid |-> grid,
   doc |-> doc,
   offset |-> off,
   view |-> v,
   width |-> w,
   height |-> h,
   clientWidth |-> cw,
   clientHeight |-> ch,
   roads |->
     IF doc = Null THEN << >>
     ELSE SelectSeq(
            [i \in 1..Len(doc.roadLine) |->
               drawRoadLine(doc.roadLine[i], i, sel)],
            LAMBDA r : r # Null)]

\* zoom with the scale changed before the world point is computed
zoom_ScaleFirst(factor, centerX, centerY, off, v, h) ==
  LET s == Mul(v.scale, factor)
      worldX == Add(Div(Sub(centerX, v.translateX), s), off.x)
      worldY == Add(Div(Sub(Sub(h, centerY), v.translateY), s), off.y)
  IN  [scale |-> s,
       translateX |-> Sub(centerX, Mul(Sub(worldX, off.x), s)),
       translateY |-> Sub(Sub(h, centerY), Mul(Sub(worldY, off.y), s))]

\* zoom(factor, centerX, centerY): the view after the call
zoom(factor, centerX, centerY, off, v, h) ==
  LET worldX == Add(Div(Sub(centerX, v.translateX), v.scale), off.x)
      worldY ==
        Add(Div(Sub(Sub(h, centerY), v.translateY), v.scale), off.y)
      s == Mul(v.scale, factor)
  IN  [scale |-> s,
       translateX |-> Sub(centerX, Mul(Sub(worldX, off.x), s)),
       translateY |-> Sub(Sub(h, centerY), Mul(Sub(worldY, off.y), s))]

\* pan(dx, dy): the view after the call
pan(dx, dy, v) ==
  [scale |-> v.scale,
   translateX |-> Add(v.translateX, dx),
   translateY |-> Sub(v.translateY, dy)]

\* a raw point of the data less the offset
Shifted(point, off) == [x |-> Sub(point.x, off.x), y |-> Sub(point.y, off.y)]

\* the vector from p1 to p2: dx = p2.x - p1.x, dy = p2.y - p1.y
Delta(p1, p2) == [x |-> Sub(p2.x, p1.x), y |-> Sub(p2.y, p1.y)]

\* u.x * w.x + u.y * w.y
Dot(u, w) == Add(Mul(u.x, w.x), Mul(u.y, w.y))

\* dx * dx + dy * dy
SquaredLength(d) == Dot(d, d)

\* the loop of calculateRoadLength from point i on, totalLength so far
RECURSIVE RoadLengthFrom(_, _, _)
RoadLengthFrom(totalLength, pts, i) ==
  IF i > Len(pts) - 1 THEN totalLength
  ELSE RoadLengthFrom(
         Add(totalLength,
             MathSqrt(SquaredLength(Delta(pts[i], pts[i + 1])))),
         pts, i + 1)

\* calculateRoadLength(road)
calculateRoadLength(pts) == RoadLengthFrom(Zero(0), pts, 1)

\* Math.max(0, Math.min(1, t))
Clamped(t) == MathMax(Zero(0), MathMin(N(1), t))

\* the point p1 + t * d
ClosestPoint(p1, d, t) ==
  [x |-> Add(p1.x, Mul(t, d.x)), y |-> Add(p1.y, Mul(t, d.y))]

\* the squared distance computed from the click to the segment from p1 along
\* d, of squared length lenSq: the projection parameter t, clamped, gives the
\* closest point.  Math.pow(e, 2) is the correctly rounded square, e * e.
SegmentDistSq(p1, d, lenSq, clickWorldPos) ==
  SquaredLength(
    Delta(ClosestPoint(p1, d, Clamped(Div(Dot(Delta(p1, clickWorldPos), d),
                                          lenSq))),
          clickWorldPos))

\* the comparison with the running minimum, replacing it on a tie
PickCloser_LastWins(acc, distSq, k) ==
  IF Le(distSq, acc.minDistance)
  THEN [minDistance |-> distSq, closestRoad |-> k]
  ELSE acc

\* if (distSq < minDistance) { minDistance = distSq; closestRoad = road }
PickCloser(acc, distSq, k) ==
  IF Lt(distSq, acc.minDistance)
  THEN [minDistance |-> distSq, closestRoad |-> k]
  ELSE acc

\* the body of the loop from the test of lenSq on
PickVector(acc, p1, d, lenSq, k, clickWorldPos) ==
  IF StrictEq(lenSq, Zero(0)) THEN acc
  ELSE PickCloser(acc, SegmentDistSq(p1, d, lenSq, clickWorldPos), k)

\* the body of the loop for the segment along d from p1
PickAlong(acc, p1, d, k, clickWorldPos) ==
  PickVector(acc, p1, d, SquaredLength(d), k, clickWorldPos)

\* the body of the loop for the segment from p1 to p2
PickBetween(acc, p1, p2, k, clickWorldPos) ==
  PickAlong(acc, p1, Delta(p1, p2), k, clickWorldPos)

\* the body of the loop with the raw points taken as they are, the offset not
\* subtracted
PickSegment_RawPoints(acc, p1_raw, p2_raw, k, off, clickWorldPos) ==
  PickBetween(acc, p1_raw, p2_raw, k, clickWorldPos)

\* the body of the for loop of selectRoadAt for the segment from p1_raw to
\* p2_raw of the road at place k: the running minimum after it
PickSegment(acc, p1_raw, p2_raw, k, off, clickWorldPos) ==
  PickBetween(acc, Shifted(p1_raw, off), Shifted(p2_raw, off), k,
              clickWorldPos)

RECURSIVE PickSegments(_, _, _, _, _, _)
PickSegments(acc, pts, i, k, off, clickWorldPos) ==
  IF i > Len(pts) - 1 THEN acc
  ELSE PickSegments(PickSegment(acc, pts[i], pts[i + 1], k, off, clickWorldPos),
                    pts, i + 1, k, off, clickWorldPos)

RECURSIVE PickRoads(_, _, _, _, _)
PickRoads(acc, roads, k, off, clickWorldPos) ==
  IF k > Len(roads) THEN acc
  ELSE PickRoads(PickSegments(acc, roads[k].BoundaryPoints, 1, k, off,
                              clickWorldPos),
                 roads, k + 1, off, clickWorldPos)

\* the name selectRoadAt reports for a road without RoadId (in the source
\* the Chinese word for "unnamed")
Unnamed == "unnamed"

\* the decision of selectRoadAt: the road found and the value returned
PickResult(doc, found, clickThreshold) ==
  IF Lt(found.minDistance, Mul(clickThreshold, clickThreshold))
  THEN LET road == doc.roadLine[found.closestRoad]
       IN  [selected |-> found.closestRoad,
            result |->
              [id |-> IF Truthy(road.RoadId) THEN road.RoadId ELSE Unnamed,
               length |-> calculateRoadLength(road.BoundaryPoints)]]
  ELSE [selected |-> 0, result |-> Null]

\* selectRoadAt with the pick radius taken in world units
selectRoadAt_WorldRadius(canvasX, canvasY, doc, off, v, h) ==
  PickResult(doc,
             PickRoads([minDistance |-> Infinity, closestRoad |-> 0],
                       doc.roadLine, 1, off,
                       canvasToWorld(canvasX, canvasY, v, h)),
             N(PickPixels))

\* selectRoadAt(canvasX, canvasY) on a loaded document: the place in the
\* roadLine of the road selected (0 for none) and the value returned
selectRoadAt(canvasX, canvasY, doc, off, v, h) ==
  PickResult(doc,
             PickRoads([minDistance |-> Infinity, closestRoad |-> 0],
                       doc.roadLine, 1, off,
                       canvasToWorld(canvasX, canvasY, v, h)),
             Div(N(PickPixels), v.scale))

\* ------------------------------------------------------------------------
\* The state machine
\* ------------------------------------------------------------------------

\* at most this many zoom, pan, grid and resize events and changes of the
\* layout in a behaviour
MaxInputs == 2

\* the kinds of events that are counted
Kinds == { "zoom", "pan", "grid", "resize", "click", "layout" }

\* the sizes the page layout gives the canvas, in CSS pixels
Viewports == { << 200, 150 >>, << 400, 300 >> }

\* the size it gives the canvas when the page is opened
PageViewport == << 200, 150 >>

\* the zoom factors of the handlers: 1.2 for the zoom-in button and the keys
\* '+' and '=', 0.8 for the zoom-out button and the key '-', 0.9 and 1.1 for
\* the two directions of the mouse wheel
ZoomInFactor == R(6, 5)

ZoomOutFactor == R(4, 5)

WheelOutFactor == R(9, 10)

WheelInFactor == R(11, 10)

\* the positions of the mouse when the wheel is turned
WheelPoints == { << 150, 30 >> }

\* the zoom calls of the handlers on a canvas of w by h pixels: the buttons
\* and keys zoom at the centre of the canvas, the wheel at the mouse
ZoomCalls(w, h) ==
  { [factor |-> f, centerX |-> Div(w, N(2)), centerY |-> Div(h, N(2))] :
      f \in { ZoomInFactor, ZoomOutFactor } }
  \cup { [factor |-> f, centerX |-> N(m[1]), centerY |-> N(m[2])] :
           f \in { WheelOutFactor, WheelInFactor }, m \in WheelPoints }

\* the mouse movements of drags
PanDeltas == { << N(10), N(-5) >> }

View == [scale |-> scale, translateX |-> translateX, translateY |-> translateY]

Bounds == [minX |-> minX, maxX |-> maxX, minY |-> minY, maxY |-> maxY]

\* the roads of doc that have 2 points or more
Pickable(doc) ==
  IF doc = Null THEN {}
  ELSE { k \in 1..Len(doc.roadLine) : Len(doc.roadLine[k].BoundaryPoints) >= 2 }

\* the second point of road k of doc
SecondPoint(doc, k) == doc.roadLine[k].BoundaryPoints[2]

\* the middle of the first segment of road k of doc
MidPoint(doc, k) ==
  LET pts == doc.roadLine[k].BoundaryPoints
  IN  [x |-> Div(Add(pts[1].x, pts[2].x), N(2)),
       y |-> Div(Add(pts[1].y, pts[2].y), N(2))]

\* the projection of a raw point in the current state
Projected(p) == worldToCanvas(p.x, p.y, offset, View, N(clientHeight))

\* the click positions of the mouse: the canvas origin and, where they are
\* finite, the projections of the middle of the first road and of the
\* second point of the second road
ClickPoints ==
  LET seen(q) == IsFinite(q.x) /\ IsFinite(q.y)
  IN  { [x |-> Zero(0), y |-> Zero(0)] }
      \cup { q \in { Projected(MidPoint(data, k)) :
                       k \in Pickable(data) \cap { 1 } } : seen(q) }
      \cup { q \in { Projected(SecondPoint(data, k)) :
                       k \in Pickable(data) \cap { 2 } } : seen(q) }

\* the state the constructors of MapRenderer and MapApp leave: no document,
\* the identity view, the bitmap sized by setupCanvas, nothing drawn; the
\* status reads "loading map list..." and the fetch of the index is awaited;
\* u is the 'file' parameter of the page URL, vp the size of the canvas
Constructed(u, vp) ==
  /\ data = Null
  /\ offset = [x |-> Zero(0), y |-> Zero(0)]
  /\ minX = Infinity
  /\ maxX = NegInfinity
  /\ minY = Infinity
  /\ maxY = NegInfinity
  /\ scale = N(1)
  /\ translateX = Zero(0)
  /\ translateY = Zero(0)
  /\ showGrid = FALSE
  /\ selectedRoad = Null
  /\ clientWidth = vp[1]
  /\ clientHeight = vp[2]
  /\ canvasWidth = setupCanvas(vp[1], vp[2]).width
  /\ canvasHeight = setupCanvas(vp[1], vp[2]).height
  /\ frame = Null
  /\ loadView = Null
  /\ calls = [k \in Kinds |-> 0]
  /\ requests = << >>
  /\ index = "fetch"
  /\ mapOptions = knownMaps
  /\ status = [kind |-> "loadingList", file |-> Null]
  /\ infoPanel = Null
  /\ urlFile = u

\* the renderer on a page whose URL has no 'file' parameter
Init == Constructed(NoFile, PageViewport)

\* the canvas after a draw() made before the handler changes the state
Redrawn_BeforeChange ==
  draw(data, offset, View, canvasWidth, canvasHeight, clientWidth,
       clientHeight, showGrid, selectedRoad)

\* the canvas after a draw() in the state the step leads to
Redrawn ==
  draw(data', offset', View', canvasWidth', canvasHeight', clientWidth',
       clientHeight', showGrid', selectedRoad')

\* loadData(jsonData), jsonData a freshly parsed document
LoadData(jsonData) ==
  /\ data' = jsonData
  /\ offset' = IF jsonData.offset = Null THEN [x |-> Zero(0), y |-> Zero(0)]
               ELSE jsonData.offset
  /\ \E b \in { calculateBounds(data', offset') } :
       /\ minX' = b.minX
       /\ maxX' = b.maxX
       /\ minY' = b.minY
       /\ maxY' = b.maxY
  /\ \E fit \in { fitBounds(Bounds', N(clientWidth), N(clientHeight), View) } :
       /\ scale' = fit.scale
       /\ translateX' = fit.translateX
       /\ translateY' = fit.translateY
  /\ selectedRoad' = IF selectedRoad = Null THEN Null
                     ELSE [selectedRoad EXCEPT !.current = FALSE]
  /\ UNCHANGED << showGrid, clientWidth, clientHeight, canvasWidth,
                  canvasHeight >>
  /\ frame' = Redrawn
  /\ loadView' = [view |-> View', width |-> clientWidth,
                  height |-> clientHeight]

\* zoom(factor, centerX, centerY)
Zoom(factor, centerX, centerY) ==
  /\ \E v \in { zoom(factor, centerX, centerY, offset, View,
                      N(clientHeight)) } :
       /\ scale' = v.scale
       /\ translateX' = v.translateX
       /\ translateY' = v.translateY
  /\ UNCHANGED << data, offset, minX, maxX, minY, maxY, showGrid,
                  selectedRoad, clientWidth, clientHeight, canvasWidth,
                  canvasHeight, loadView >>
  /\ frame' = Redrawn

\* pan(dx, dy)
Pan(dx, dy) ==
  /\ \E v \in { pan(dx, dy, View) } :
       /\ scale' = v.scale
       /\ translateX' = v.translateX
       /\ translateY' = v.translateY
  /\ UNCHANGED << data, offset, minX, maxX, minY, maxY, showGrid,
                  selectedRoad, clientWidth, clientHeight, canvasWidth,
                  canvasHeight, loadView >>
  /\ frame' = Redrawn

\* resetView()
ResetView ==
  /\ UNCHANGED << data, offset, minX, maxX, minY, maxY, showGrid,
                  selectedRoad, clientWidth, clientHeight, canvasWidth,
                  canvasHeight, loadView >>
  /\ \E fit \in { fitBounds(Bounds, N(clientWidth), N(clientHeight), View) } :
       /\ scale' = fit.scale
       /\ translateX' = fit.translateX
       /\ translateY' = fit.translateY
       /\ frame' = IF fit.drew THEN Redrawn ELSE frame

\* toggleGrid()
ToggleGrid ==
  /\ showGrid' = ~showGrid
  /\ UNCHANGED << data, offset, minX, maxX, minY, maxY, scale, translateX,
                  translateY, selectedRoad, clientWidth, clientHeight,
                  canvasWidth, canvasHeight, loadView >>
  /\ frame' = Redrawn

\* selectRoadAt(canvasX, canvasY): the value returned
SelectRoadAtResult(canvasX, canvasY) ==
  IF data = Null THEN [selected |-> 0, result |-> Null]
  ELSE selectRoadAt(canvasX, canvasY, data, offset, View, N(clientHeight))

\* selectRoadAt(canvasX, canvasY)
SelectRoadAt(canvasX, canvasY) ==
  /\ UNCHANGED << data, offset, minX, maxX, minY, maxY, scale, translateX,
                  translateY, showGrid, clientWidth, clientHeight,
                  canvasWidth, canvasHeight, loadView >>
  /\ IF data = Null
     THEN UNCHANGED << selectedRoad, frame >>
     ELSE \E pick \in { SelectRoadAtResult(canvasX, canvasY) } :
            /\ selectedRoad' =
                 IF pick.selected = 0 THEN Null
                 ELSE [road |-> data.roadLine[pick.selected],
                       idx |-> pick.selected, current |-> TRUE]
            /\ frame' = Redrawn

\* the page layout gives the canvas another size, w by h pixels: the
\* methods read it from then on, the bitmap and its content stay
Layout(w, h) ==
  /\ << w, h >> # << clientWidth, clientHeight >>
  /\ clientWidth' = w
  /\ clientHeight' = h
  /\ UNCHANGED << data, offset, minX, maxX, minY, maxY, scale, translateX,
                  translateY, showGrid, selectedRoad, canvasWidth,
                  canvasHeight, frame, loadView >>

\* the 'resize' handler of the window: setupCanvas() and draw()
Resize ==
  /\ canvasWidth' = setupCanvas(clientWidth, clientHeight).width
  /\ canvasHeight' = setupCanvas(clientWidth, clientHeight).height
  /\ UNCHANGED << data, offset, minX, maxX, minY, maxY, scale, translateX,
                  translateY, showGrid, selectedRoad, clientWidth,
                  clientHeight, loadView >>
  /\ frame' = Redrawn

\* one more event of kind k, of at most max events that are counted
Counted(k, max) ==
  /\ calls["zoom"] + calls["pan"] + calls["grid"] + calls["resize"]
       + calls["click"] + calls["layout"] < max
  /\ calls' = [calls EXCEPT ![k] = @ + 1]

\* the renderer driven directly: loadData with any document, the calls the
\* handlers of the buttons, the keys, the mouse and the window make, and
\* the layout of the page
Next ==
  \/ \E jsonData \in MapFiles :
       LoadData(jsonData) /\ UNCHANGED << calls, appVars >>
  \/ /\ Counted("zoom", MaxInputs)
     /\ \E z \in ZoomCalls(N(clientWidth), N(clientHeight)) :
          Zoom(z.factor, z.centerX, z.centerY)
     /\ UNCHANGED appVars
  \/ /\ Counted("pan", MaxInputs)
     /\ \E dd \in PanDeltas : Pan(dd[1], dd[2])
     /\ UNCHANGED appVars
  \/ ResetView /\ UNCHANGED << calls, appVars >>
  \/ Counted("grid", MaxInputs) /\ ToggleGrid /\ UNCHANGED appVars
  \/ \E c \in ClickPoints :
       SelectRoadAt(c.x, c.y) /\ UNCHANGED << calls, appVars >>
  \/ /\ Counted("layout", MaxInputs)
     /\ \E vp \in Viewports : Layout(vp[1], vp[2])
     /\ UNCHANGED appVars
  \/ Counted("resize", MaxInputs) /\ Resize /\ UNCHANGED appVars

Spec == Init /\ [][Next]_vars

\* ------------------------------------------------------------------------
\* The application: start-up, loading map files over the network, and the
\* handlers of the page
\* ------------------------------------------------------------------------

\* the map list is changed only while fewer than this many calls of
\* loadMapFile have been made
MaxLoads == 2

\* at most this many events of the buttons, the keys, the mouse, the
\* window and the layout in a behaviour of the application
MaxEvents == 1

\* the files of the map list
MapNames == { "AITownReconstructed_V0103_200518.xodr.json", "GESM2.xodr.json" }

\* the 'file' parameters a page URL may carry: none, a file of the map
\* list, a file the server does not hold
UrlFiles == { NoFile, "GESM2.xodr.json", "missing.json" }

\* the documents the server may hold as map/mapIndex.json: one that lists
\* the two files, one that lists none
MapIndexes ==
  { [maps |-> << [name |-> "AI Town Reconstructed",
                  file |-> "AITownReconstructed_V0103_200518.xodr.json"],
                 [name |-> "GESM2", file |-> "GESM2.xodr.json"] >>],
    [maps |-> << >>] }

\* the document the server holds under a name
FileDoc(filename) ==
  IF filename = "GESM2.xodr.json" THEN DocOffset ELSE DocCross

\* the status texts: "loading map list...", "ready", "using default map
\* list", "loading map: <file>...", "loaded: <file>" and "load failed:
\* <file>" ("loading map list failed" is set and replaced by "using default
\* map list" within one step of the catch block)
StatusLoadingList == [kind |-> "loadingList", file |-> Null]

StatusReady == [kind |-> "ready", file |-> Null]

StatusDefaultList == [kind |-> "defaultList", file |-> Null]

StatusLoading(filename) == [kind |-> "loading", file |-> filename]

StatusLoaded(filename) == [kind |-> "loaded", file |-> filename]

StatusFailed(filename) == [kind |-> "failed", file |-> filename]

\* the state the constructor of MapApp leaves, under any page URL: init()
\* has run up to the fetch of loadMapIndex
InitApp == \E u \in UrlFiles : Constructed(u, PageViewport)

\* populateMapSelect(mapIndex): the file names of the options after it
populateMapSelect(mapIndex) ==
  [i \in DOMAIN mapIndex.maps |-> mapIndex.maps[i].file]

\* loadMapFile(filename) up to its first await: the status is set and the
\* fetch is sent
LoadMapFile(filename) ==
  /\ status' = StatusLoading(filename)
  /\ requests' = Append(requests, [file |-> filename, stage |-> "fetch"])

\* the rest of init() after loadMapIndex has returned with the options
\* opts and the status st: handleUrlParams starts the load of the file the
\* URL names, if it names one
handleUrlParams(opts, st) ==
  /\ index' = "done"
  /\ mapOptions' = opts
  /\ IF urlFile = NoFile
     THEN status' = st /\ UNCHANGED requests
     ELSE LoadMapFile(urlFile)
  /\ UNCHANGED << rendererVars, infoPanel, urlFile >>

\* the fetch of the index settles: with a response that is ok loadMapIndex
\* asks for the JSON body; with any other, or none, it throws, the catch
\* block sets the status "loading map list failed", fallbackMapList fills
\* the list and sets the status "using default map list", and init() goes on
IndexFetchSettles(ok) ==
  /\ index = "fetch"
  /\ IF ok
     THEN /\ index' = "json"
          /\ UNCHANGED << rendererVars, requests, mapOptions, status,
                          infoPanel, urlFile >>
     ELSE handleUrlParams(knownMaps, StatusDefaultList)

\* response.json() of the index settles: with a parsed document mapIndex
\* the list is filled from it and the status set to "ready"; with a body
\* that does not parse (mapIndex = Null) the catch block runs as above;
\* then init() goes on
IndexJsonSettles(mapIndex) ==
  /\ index = "json"
  /\ IF mapIndex # Null
     THEN handleUrlParams(populateMapSelect(mapIndex), StatusReady)
     ELSE handleUrlParams(knownMaps, StatusDefaultList)

\* the values the map list offers: the empty value of its first option and
\* the files of the others
SelectValues == { "" } \cup { mapOptions[i] : i \in DOMAIN mapOptions }

\* the 'change' handler of the map list, value chosen
MapSelectChange(value) ==
  /\ Len(requests) < MaxLoads
  /\ value # ""
  /\ LoadMapFile(value)
  /\ UNCHANGED << rendererVars, index, mapOptions, infoPanel, urlFile >>

\* the fetch of call i settles and the call goes on to its second await:
\* with a response that is ok it asks for the JSON body; with any other, or
\* no response, it throws and the catch block reports the failure
FetchSettles(i, ok) ==
  /\ requests[i].stage = "fetch"
  /\ ok => requests[i].file \in MapNames
  /\ IF ok
     THEN /\ requests' = [requests EXCEPT ![i].stage = "json"]
          /\ UNCHANGED status
     ELSE /\ requests' = [requests EXCEPT ![i].stage = "failed"]
          /\ status' = StatusFailed(requests[i].file)
  /\ UNCHANGED << rendererVars, index, mapOptions, infoPanel, urlFile >>

\* response.json() of call i settles and the call runs to its end: with a
\* parsed document it calls loadData, sets the status and the URL parameter;
\* with a body that does not parse the catch block reports the failure
JsonSettles(i, parsed) ==
  /\ requests[i].stage = "json"
  /\ IF parsed
     THEN /\ LoadData(FileDoc(requests[i].file))
          /\ UNCHANGED calls
          /\ status' = StatusLoaded(requests[i].file)
          /\ urlFile' = requests[i].file
          /\ requests' = [requests EXCEPT ![i].stage = "done"]
     ELSE /\ requests' = [requests EXCEPT ![i].stage = "failed"]
          /\ status' = StatusFailed(requests[i].file)
          /\ UNCHANGED << rendererVars, urlFile >>
  /\ UNCHANGED << index, mapOptions, infoPanel >>

\* the 'click' handler of the canvas: selectRoadAt, and the panel shows the
\* road returned or is hidden
CanvasClick(mouseX, mouseY) ==
  /\ SelectRoadAt(mouseX, mouseY)
  /\ infoPanel' = SelectRoadAtResult(mouseX, mouseY).result
  /\ UNCHANGED << requests, index, mapOptions, status, urlFile >>

\* an event of kind k whose handler leaves the application's state alone
Handled(k) == Counted(k, MaxEvents) /\ UNCHANGED appVars

\* the application: its start-up, the map list starts loads, the network
\* settles them in any order, the buttons, the keys, the mouse and the
\* window call the renderer in between, and the layout resizes the canvas
NextApp ==
  \/ \E ok \in BOOLEAN : IndexFetchSettles(ok)
  \/ \E mapIndex \in MapIndexes \cup { Null } : IndexJsonSettles(mapIndex)
  \/ \E value \in SelectValues : MapSelectChange(value)
  \/ \E i \in DOMAIN requests : \E ok \in BOOLEAN : FetchSettles(i, ok)
  \/ \E i \in DOMAIN requests : \E parsed \in BOOLEAN : JsonSettles(i, parsed)
  \/ /\ Handled("zoom")
     /\ \E z \in ZoomCalls(N(clientWidth), N(clientHeight)) :
          Zoom(z.factor, z.centerX, z.centerY)
  \/ Handled("pan") /\ \E dd \in PanDeltas : Pan(dd[1], dd[2])
  \/ ResetView /\ UNCHANGED << calls, appVars >>
  \/ Handled("grid") /\ ToggleGrid
  \/ /\ Counted("click", MaxEvents)
     /\ \E c \in ClickPoints : CanvasClick(c.x, c.y)
  \/ Handled("layout") /\ \E vp \in Viewports : Layout(vp[1], vp[2])
  \/ Handled("resize") /\ Resize

SpecApp == InitApp /\ [][NextApp]_vars

\* ------------------------------------------------------------------------
\* Properties
\* ------------------------------------------------------------------------

\* a view whose scale is a positive finite number
ProperView == IsFinite(scale) /\ Sign(scale) > 0

\* the floating-point tolerance: two numbers are taken as equal up to
\* rounding when they differ by at most 1e-9 times the greater of their
\* magnitudes and 1
Epsilon == Div(N(1), N(1000000000))

Near(a, b) ==
  /\ IsFinite(a)
  /\ IsFinite(b)
  /\ Le(MathAbs(Sub(a, b)),
        Mul(Epsilon, MathMax(N(1), MathMax(MathAbs(a), MathAbs(b)))))

\* two points that are equal up to rounding
NearPoint(p, q) == Near(p.x, q.x) /\ Near(p.y, q.y)

\* the roads the last draw stroked in the highlight style
Highlighted(f) == { i \in 1..Len(f.roads) : f.roads[i].strokeStyle = "lime" }

\* C1: loadData leaves the selection empty: after every load selectedRoad is
\* null and no road of the new document is drawn highlighted.
C1_LoadClearsSelection ==
  [][(\E jsonData \in MapFiles : LoadData(jsonData))
       => (selectedRoad' = Null /\ Highlighted(frame') = {})]_vars

\* C2: the scale is a strictly positive finite number in every reachable
\* state.
C2_ScalePositiveFinite == ProperView

\* the width and the height of the bounds
MapWidth == Sub(maxX, minX)

MapHeight == Sub(maxY, minY)

\* the bounds hold at least one point
HasBounds == ~StrictEq(minX, Infinity)

\* whether a number is zero
IsZero(a) == StrictEq(a, Zero(0))

\* what fitBounds makes of the view in the current state
Fitted == fitBounds(Bounds, N(clientWidth), N(clientHeight), View)

\* C3: for bounds of zero width or zero height fitBounds yields the scale of
\* the other axis, or 1 if both are zero, and finite translations.
C3_DegenerateFit ==
  (HasBounds /\ (IsZero(MapWidth) \/ IsZero(MapHeight))) =>
    /\ Near(Fitted.scale,
            IF IsZero(MapWidth) /\ IsZero(MapHeight) THEN N(1)
            ELSE IF IsZero(MapWidth)
            THEN Div(Mul(N(clientHeight), R(9, 10)), MapHeight)
            ELSE Div(Mul(N(clientWidth), R(9, 10)), MapWidth))
    /\ IsFinite(Fitted.translateX)
    /\ IsFinite(Fitted.translateY)

\* screen points the round trip is tried on
ScreenPoints ==
  { [x |-> N(0), y |-> N(0)], [x |-> N(150), y |-> N(30)],
    [x |-> R(75, 2), y |-> N(149)] }

\* C4: for a positive finite scale, any document offset and any screen
\* point p, worldToCanvas applied to the result of canvasToWorld gives p
\* back, up to rounding: canvasToWorld is the inverse of worldToCanvas and
\* re-adds the document offset.
C4_RoundTrip ==
  ProperView =>
    \A p \in ScreenPoints :
      LET w == canvasToWorld(p.x, p.y, View, N(clientHeight))
      IN  NearPoint(worldToCanvas(w.x, w.y, offset, View, N(clientHeight)), p)

\* the round trip with the offset added to the result of canvasToWorld by
\* the caller, as zoom() does in its own inversion
RoundTripWithOffset ==
  ProperView =>
    \A p \in ScreenPoints :
      LET w == canvasToWorld(p.x, p.y, View, N(clientHeight))
      IN  NearPoint(worldToCanvas(Add(w.x, offset.x), Add(w.y, offset.y),
                                  offset, View, N(clientHeight)), p)

\* C5: with the bounds empty, resetView and the fit step of loadData leave
\* the view as it was; loading a document with an empty roadLine leaves the
\* bounds empty, and the draw of the load strokes no road.
C5_EmptyBoundsKeepView ==
  [][/\ ((ResetView \/ \E jsonData \in MapFiles : LoadData(jsonData))
           /\ StrictEq(minX', Infinity))
         => (scale' = scale /\ translateX' = translateX
             /\ translateY' = translateY)
     /\ (\E jsonData \in MapFiles :
           LoadData(jsonData) /\ jsonData.roadLine = << >>)
         => (Bounds' = EmptyBounds /\ frame' # Null /\ frame'.roads = << >>)
    ]_vars

\* a document without in-threshold points is loaded and drawn, and the view
\* is the one an earlier zoom left
C5_Witness ==
  /\ data \in {DocEmpty, DocOutliers}
  /\ Bounds = EmptyBounds
  /\ frame # Null
  /\ frame.doc = data
  /\ calls["zoom"] > 0
  /\ scale # N(1)
  /\ ProperView

\* the factors and screen points the zoom anchor is tried on
ZoomTests ==
  { [factor |-> f, centerX |-> c[1], centerY |-> c[2]] :
      f \in { ZoomInFactor, WheelOutFactor, N(2), Zero(0) },
      c \in { << N(100), N(75) >>, << N(150), N(30) >>,
              << Zero(0), Zero(0) >> } }

\* C6: the world point that worldToCanvas maps to (centerX, centerY) before
\* zoom(factor, centerX, centerY) is mapped to the same screen point after
\* it, up to rounding, and the scale after it is the scale before it times
\* factor.
C6_ZoomAnchor ==
  \A z \in ZoomTests :
    LET c == [x |-> z.centerX, y |-> z.centerY]
        w == canvasToWorld(c.x, c.y, View, N(clientHeight))
        wx == Add(w.x, offset.x)
        wy == Add(w.y, offset.y)
        after == zoom(z.factor, c.x, c.y, offset, View, N(clientHeight))
    IN  NearPoint(worldToCanvas(wx, wy, offset, View, N(clientHeight)), c) =>
          /\ NearPoint(worldToCanvas(wx, wy, offset, after, N(clientHeight)),
                       c)
          /\ after.scale = Mul(scale, z.factor)

\* a zoom has acted on the fitted view of a document with an offset
C6_Witness ==
  /\ calls["zoom"] > 0
  /\ ProperView
  /\ data # Null
  /\ ~IsZero(offset.x)
  /\ scale # Fitted.scale

\* C7: after fitBounds on non-empty bounds the centre of the bounding box is
\* projected to the centre of the canvas, its four corners are projected
\* into the canvas, and the scale is min(0.9*W/mapWidth, 0.9*H/mapHeight),
\* all up to rounding.
C7_FitCentres ==
  HasBounds =>
    LET w == N(clientWidth)
        h == N(clientHeight)
        v == Fitted
        proj(x, y) == worldToCanvas(Add(x, offset.x), Add(y, offset.y),
                                    offset, v, h)
        centre == proj(Div(Add(minX, maxX), N(2)), Div(Add(minY, maxY), N(2)))
        claimed == MathMin(Div(Mul(R(9, 10), w), MapWidth),
                           Div(Mul(R(9, 10), h), MapHeight))
    IN  /\ NearPoint(centre, [x |-> Div(w, N(2)), y |-> Div(h, N(2))])
        /\ \A x \in {minX, maxX}, y \in {minY, maxY} :
             /\ Le(Zero(0), proj(x, y).x) /\ Le(proj(x, y).x, w)
             /\ Le(Zero(0), proj(x, y).y) /\ Le(proj(x, y).y, h)
        /\ Near(v.scale, claimed)

\* the set of the elements of a sequence
Range(seq) == { seq[i] : i \in 1..Len(seq) }

\* the least and the greatest of a non-empty set of numbers
Least(S) == CHOOSE m \in S : \A n \in S : Le(m, n)

Greatest(S) == CHOOSE m \in S : \A n \in S : Le(n, m)

\* the offset-adjusted points of doc within the outlier threshold
InThreshold(doc, off) ==
  { q \in { [x |-> Sub(p.x, off.x), y |-> Sub(p.y, off.y)] :
              p \in Range(AllPoints(doc.roadLine)) } :
      Le(MathAbs(q.x), REASONABLE_LIMIT) /\ Le(MathAbs(q.y), REASONABLE_LIMIT) }

\* the minima and maxima of the in-threshold points, the empty sentinel if
\* there is none
ExactBounds(doc, off) ==
  LET S == InThreshold(doc, off)
  IN  IF S = {} THEN EmptyBounds
      ELSE [minX |-> Least({ q.x : q \in S }),
            maxX |-> Greatest({ q.x : q \in S }),
            minY |-> Least({ q.y : q \in S }),
            maxY |-> Greatest({ q.y : q \in S })]

\* doc with the point q added, as a road of its own
WithPoint(doc, q) ==
  [doc EXCEPT !.roadLine = << Road(Undefined, << q >>) >> \o @]

\* raw points added to a document: beyond the threshold in x, in y, by 150
\* and by 50 (within it under an offset of 100), and on the threshold
ExtraPoints ==
  { P(Far, N(1)), P(N(1), Neg(Far)), P(Add(REASONABLE_LIMIT, N(150)), N(100)),
    P(Add(REASONABLE_LIMIT, N(50)), N(100)), P(REASONABLE_LIMIT, N(0)),
    P(Neg(REASONABLE_LIMIT), N(7)) }

\* C8: the bounds are the minima and maxima of the offset-adjusted points
\* whose |x| and |y| do not exceed 1e12, the empty sentinel if there is no
\* such point; a point beyond the threshold added to the document leaves the
\* bounds as they are, and the loaded document keeps its outlier points.
C8_BoundsIgnoreOutliers ==
  data # Null =>
    /\ Bounds = ExactBounds(data, offset)
    /\ (InThreshold(data, offset) = {}) = StrictEq(minX, Infinity)
    /\ data \in MapFiles
    /\ \A q \in ExtraPoints :
         LET more == WithPoint(data, q)
         IN  calculateBounds(more, offset) =
               IF InThreshold(more, offset) = InThreshold(data, offset)
               THEN Bounds
               ELSE ExactBounds(more, offset)

\* a document with points within and beyond the threshold is loaded
C8_Witness ==
  /\ data # Null
  /\ HasBounds
  /\ \E p \in Range(AllPoints(data.roadLine)) :
       Gt(MathAbs(Sub(p.x, offset.x)), REASONABLE_LIMIT)
  /\ \E q \in ExtraPoints :
       InThreshold(WithPoint(data, q), offset) = InThreshold(data, offset)

\* a view of finite positive scale and finite translations
FiniteView == ProperView /\ IsFinite(translateX) /\ IsFinite(translateY)

\* the square of the distance, in the plane, from point c to the segment
\* from a to b (to the point a if b = a)
SegDistSq(c, a, b) ==
  LET dx == Sub(b.x, a.x)
      dy == Sub(b.y, a.y)
      lenSq == Add(Mul(dx, dx), Mul(dy, dy))
      dot == Add(Mul(Sub(c.x, a.x), dx), Mul(Sub(c.y, a.y), dy))
      t == IF IsZero(lenSq) \/ Le(dot, Zero(0)) THEN Zero(0)
           ELSE IF Le(lenSq, dot) THEN N(1)
           ELSE Div(dot, lenSq)
      ex == Sub(c.x, Add(a.x, Mul(t, dx)))
      ey == Sub(c.y, Add(a.y, Mul(t, dy)))
  IN  Add(Mul(ex, ex), Mul(ey, ey))

\* the segments of road k of the loaded document, as the places of their
\* first points; without those of zero length unless all is TRUE
Segments(k, all) ==
  LET pts == data.roadLine[k].BoundaryPoints
  IN  { i \in 1..(Len(pts) - 1) :
          all \/ ~StrictEq(pts[i].x, pts[i + 1].x)
              \/ ~StrictEq(pts[i].y, pts[i + 1].y) }

\* the square of the distance on the screen, in pixels, from the screen point
\* c to the drawing of road k of the loaded document; Infinity if the road
\* has no segment
RoadDistSq(k, c, all) ==
  LET pts == data.roadLine[k].BoundaryPoints
  IN  Least({ SegDistSq(c, Projected(pts[i]), Projected(pts[i + 1])) :
                i \in Segments(k, all) } \cup { Infinity })

\* the squares of the distances on the screen from c to every road of the
\* loaded document
RoadDists(c, all) == [k \in 1..Len(data.roadLine) |-> RoadDistSq(k, c, all)]

\* what selectRoadAt decides for a click at c in the current state
Pick(c) == selectRoadAt(c.x, c.y, data, offset, View, N(clientHeight))

\* the screen point dx pixels right of and dy pixels below the point q
Beside(q, dx, dy) == [x |-> Add(q.x, N(dx)), y |-> Add(q.y, N(dy))]

\* the first point of road k of doc
FirstPoint(doc, k) == doc.roadLine[k].BoundaryPoints[1]

\* the clicks the pick is tried on: those of the mouse; 4, 5 and 6 pixels
\* below the middle of the first road; 5 pixels above the end of the second
\* road; on the drawing of the fourth road, of two equal points
PickProbes ==
  IF ~FiniteView THEN ClickPoints
  ELSE ClickPoints
       \cup { Beside(Projected(MidPoint(data, k)), 0, d) :
                k \in Pickable(data) \cap { 1 }, d \in { 4, 5, 6 } }
       \cup { Beside(Projected(SecondPoint(data, k)), 0, -5) :
                k \in Pickable(data) \cap { 2 } }
       \cup { Projected(FirstPoint(data, k)) : k \in Pickable(data) \cap { 4 } }

\* the squares of 5 pixels less and more the tolerance of rounding
PickLow == Mul(N(PickPixels * PickPixels), Sub(N(1), Epsilon))

PickHigh == Mul(N(PickPixels * PickPixels), Add(N(1), Epsilon))

\* the least of the distances dists
LeastDist(dists) == Least(Range(dists) \cup { Infinity })

\* the statement of C9 for the segments counted by all: a click less than
\* PickPixels pixels from the nearest road selects a road, a click more than
\* PickPixels pixels from it selects none; the road selected is a nearest
\* one, and the value returned is its id and length, null if none is
\* selected
PickWithinPixels(all) ==
  data # Null =>
    \A c \in PickProbes :
      LET pick == Pick(c)
          dists == RoadDists(c, all)
          road == data.roadLine[pick.selected]
      IN  /\ (FiniteView /\ Lt(LeastDist(dists), PickLow))
               => pick.selected # 0
          /\ (~FiniteView \/ Gt(LeastDist(dists), PickHigh))
               => pick.selected = 0
          /\ IF pick.selected = 0 THEN pick.result = Null
             ELSE /\ Near(dists[pick.selected], LeastDist(dists))
                  /\ pick.result =
                       [id |-> IF Truthy(road.RoadId) THEN road.RoadId
                               ELSE Unnamed,
                        length |-> calculateRoadLength(road.BoundaryPoints)]

\* C9, as claimed: the distance is taken to any segment of any road.
C9_PickAsClaimed == PickWithinPixels(TRUE)

\* C9, amended: selectRoadAt skips the segments of zero length; with d the
\* least distance from the click to a segment of non-zero length, the call
\* selects a nearest road and returns {id, length} if d is less than 5/scale
\* (less than 5 pixels on the screen, at every scale), and selects nothing
\* and returns null if d is more; where d is 5/scale up to rounding the
\* outcome is either.
C9_PickWithinTolerance == PickWithinPixels(FALSE)

\* the square of the distance on the screen from c to the nearest segment of
\* non-zero length
ClickDist(c) == LeastDist(RoadDists(c, FALSE))

\* on a zoomed view a road is selected by a click less than 5 pixels from
\* it, and among the clicks tried one is at 5 pixels from the nearest road
\* and one further away, which selects nothing
C9_Witness ==
  /\ FiniteView
  /\ data # Null
  /\ calls["zoom"] > 0
  /\ selectedRoad # Null
  /\ selectedRoad.current
  /\ \E c \in PickProbes :
       Lt(ClickDist(c), PickLow) /\ Pick(c).selected = selectedRoad.idx
  /\ \E c \in PickProbes :
       Le(PickLow, ClickDist(c)) /\ Le(ClickDist(c), PickHigh)
  /\ \E c \in PickProbes :
       Gt(ClickDist(c), PickHigh) /\ Pick(c).selected = 0

\* the clicks the tie is tried on: the point where the first and the second
\* road meet, the point one pixel left of and above it, and the end of the
\* second road
TieProbes ==
  IF ~FiniteView THEN {}
  ELSE UNION { { Projected(FirstPoint(data, k)),
                 Beside(Projected(FirstPoint(data, k)), -1, -1),
                 Projected(SecondPoint(data, k)) } :
               k \in Pickable(data) \cap { 2 } }

\* the square of the distance selectRoadAt computes from the click at c to
\* road k: the minimum its loop finds over the segments of that road alone
ComputedDistSq(k, c) ==
  PickSegments([minDistance |-> Infinity, closestRoad |-> 0],
               data.roadLine[k].BoundaryPoints, 1, k, offset,
               canvasToWorld(c.x, c.y, View, N(clientHeight))).minDistance

\* the roads at the least of the distances selectRoadAt computes
ComputedNearest(c) ==
  LET k_all == 1..Len(data.roadLine)
      least == Least({ ComputedDistSq(k, c) : k \in k_all })
  IN  { k \in k_all : StrictEq(ComputedDistSq(k, c), least) }

\* the least of a non-empty set of integers
Min(S) == CHOOSE m \in S : \A n \in S : m <= n

\* whether the number a is a whole number of magnitude below 2^14, and that
\* whole number
IsWhole(a) ==
  a.c = "zero" \/ (a.c = "num" /\ a.e >= 0 /\ a.e < 14
                   /\ ~Low(a.h, a.l, 52 - a.e))

Whole(a) ==
  IF a.c = "zero" THEN 0
  ELSE (IF a.s = 1 THEN -1 ELSE 1) * Shr(a.h, a.l, 52 - a.e).l

IsWholePoint(q) == IsWhole(q.x) /\ IsWhole(q.y)

WholePoint(q) == [x |-> Whole(q.x), y |-> Whole(q.y)]

\* the value v brought into the interval between a and b
Clamp(v, a, b) ==
  LET lo == IF a <= b THEN a ELSE b
      hi == IF a <= b THEN b ELSE a
  IN  IF v < lo THEN lo ELSE IF v > hi THEN hi ELSE v

\* the exact square of the distance from the pixel c to the segment between
\* the pixels a and b, which is parallel to an axis
PixelDistSq(c, a, b) ==
  LET nx == Clamp(c.x, a.x, b.x)
      ny == Clamp(c.y, a.y, b.y)
  IN  (c.x - nx) * (c.x - nx) + (c.y - ny) * (c.y - ny)

\* the roads of the loaded document drawn from whole pixel to whole pixel
\* along the axes, with at least one segment of non-zero length
PixelRoads ==
  { k \in Pickable(data) :
      LET pts == data.roadLine[k].BoundaryPoints
      IN  /\ \A i \in 1..Len(pts) : IsWholePoint(Projected(pts[i]))
          /\ \A i \in 1..(Len(pts) - 1) :
               \/ StrictEq(pts[i].x, pts[i + 1].x)
               \/ StrictEq(pts[i].y, pts[i + 1].y)
          /\ Segments(k, FALSE) # {} }

\* the exact square of the distance from the pixel c to road k
PixelRoadDistSq(k, c) ==
  LET pts == data.roadLine[k].BoundaryPoints
  IN  Min({ PixelDistSq(c, WholePoint(Projected(pts[i])),
                        WholePoint(Projected(pts[i + 1]))) :
              i \in Segments(k, FALSE) })

\* C10, as claimed: when several roads are at exactly the same least
\* distance from the click, within tolerance, selectRoadAt selects the first
\* of them in roadLine order.  The distances are exact where the click and
\* the roads nearest to it are at whole pixels.
C10_TieAsClaimed ==
  (data # Null /\ FiniteView /\ PixelRoads # {}) =>
    \A q \in { p \in TieProbes : IsWholePoint(p) } :
      LET c == WholePoint(q)
          nearest == Min({ PixelRoadDistSq(k, c) : k \in PixelRoads })
          tied == { k \in PixelRoads : PixelRoadDistSq(k, c) = nearest }
      IN  (nearest < PickPixels * PickPixels /\ Cardinality(tied) >= 2)
            => Pick(q).selected = Min(tied)

\* C10, amended: when several roads are at the same least squared distance
\* as selectRoadAt computes it, within tolerance, selectRoadAt selects the
\* first of them in roadLine order; it selects no road that is not at that
\* least distance.
C10_FirstRoadWinsTie ==
  data # Null =>
    \A c \in TieProbes \cup ClickPoints :
      LET pick == Pick(c)
          tied == ComputedNearest(c)
      IN  pick.selected # 0 =>
            /\ pick.selected \in tied
            /\ \A k \in tied : pick.selected <= k

\* a road is selected by a click from which a later road is at the same
\* computed distance
C10_Witness ==
  /\ data # Null
  /\ selectedRoad # Null
  /\ selectedRoad.current
  /\ \E c \in TieProbes \cup ClickPoints :
       /\ Pick(c).selected = selectedRoad.idx
       /\ Cardinality(ComputedNearest(c)) >= 2

\* the points tried on the segment from a to b: its ends and its middle
OnSegment(a, b) ==
  { [x |-> Add(a.x, Mul(t, Sub(b.x, a.x))),
     y |-> Add(a.y, Mul(t, Sub(b.y, a.y)))] :
      t \in { Zero(0), R(1, 2), N(1) } }

\* the sum of the distances between the consecutive points of pts, each
\* moved by (-ox, -oy)
RECURSIVE MovedLength(_, _, _)
MovedLength(pts, ox, oy) ==
  IF Len(pts) < 2 THEN Zero(0)
  ELSE LET ax == Sub(pts[1].x, ox)
           ay == Sub(pts[1].y, oy)
           bx == Sub(pts[2].x, ox)
           by == Sub(pts[2].y, oy)
       IN  Add(MathSqrt(Add(Mul(Sub(bx, ax), Sub(bx, ax)),
                            Mul(Sub(by, ay), Sub(by, ay)))),
               MovedLength(Tail(pts), ox, oy))

\* a document with a non-zero offset is loaded
OffsetLoaded ==
  data # Null /\ (~IsZero(offset.x) \/ ~IsZero(offset.y))

\* C11: for a document with a non-zero offset, in every view reached by fit,
\* zoom and pan, a click at the projection of a raw point on a segment of a
\* road selects that road and returns its RoadId and the sum of the
\* distances between its consecutive raw points, which is the same with and
\* without the offset subtracted; for offset (100,100) and road R1 from
\* (100,100) to (110,100) the click at the projection of (105,100) returns
\* id "R1" and length 10.
C11_OffsetPick ==
  OffsetLoaded =>
    /\ \A k \in Pickable(data) :
         LET pts == data.roadLine[k].BoundaryPoints
         IN  \A i \in 1..(Len(pts) - 1) :
               \A p \in OnSegment(pts[i], pts[i + 1]) :
                 LET pick == Pick(Projected(p))
                 IN  /\ pick.selected = k
                     /\ pick.result =
                          [id |-> data.roadLine[k].RoadId,
                           length |-> MovedLength(pts, Zero(0), Zero(0))]
                     /\ pick.result.length =
                          MovedLength(pts, offset.x, offset.y)
    /\ data = DocOffset =>
         Pick(Projected([x |-> N(105), y |-> N(100)])).result
           = [id |-> "R1", length |-> N(10)]

\* after a zoom and a pan, a click on a road of a document with a non-zero
\* offset has selected that road, which the frame shows highlighted
C11_Witness ==
  /\ OffsetLoaded
  /\ calls["zoom"] > 0
  /\ calls["pan"] > 0
  /\ selectedRoad # Null
  /\ selectedRoad.current
  /\ selectedRoad.road.RoadId = "R1"
  /\ Highlighted(frame) = { 1 }

\* the view state of a fit
ViewOf(fit) ==
  [scale |-> fit.scale, translateX |-> fit.translateX,
   translateY |-> fit.translateY]

\* the view state resetView() leaves when called in the current state, and
\* the one a second call leaves after it
ResetOnce == ViewOf(Fitted)

ResetTwice ==
  ViewOf(fitBounds(Bounds, N(clientWidth), N(clientHeight), ResetOnce))

\* a document is loaded and the canvas has the size it had at the load
LoadedSameSize ==
  /\ data # Null
  /\ clientWidth = loadView.width
  /\ clientHeight = loadView.height

\* C12, as claimed: on a loaded document, after any zoom and pan calls and
\* with the size of the canvas unchanged, resetView sets the view state to
\* the one loadData left, and a second resetView leaves it as the first did.
C12_ResetAsClaimed ==
  LoadedSameSize => (ResetOnce = loadView.view /\ ResetTwice = ResetOnce)

\* C12, amended: on a loaded document whose bounds are not empty, with the
\* size of the canvas unchanged, resetView sets the view state to the one
\* loadData left, whatever zoom and pan calls came between; on empty bounds
\* it leaves the view state as it is, zoomed and panned; in both cases a
\* second resetView leaves the view state as the first did.
C12_ResetRestoresFit ==
  LoadedSameSize =>
    /\ ResetOnce = IF HasBounds THEN loadView.view ELSE View
    /\ ResetTwice = ResetOnce

\* after a zoom and a pan on a document with a proper fit, the view is again
\* the one loadData left
C12_Witness ==
  /\ LoadedSameSize
  /\ HasBounds
  /\ ProperView
  /\ calls["zoom"] > 0
  /\ calls["pan"] > 0
  /\ View = loadView.view

\* the world points whose projections are followed: the origin and the
\* boundary points of the loaded document
WorldPoints ==
  { [x |-> Zero(0), y |-> Zero(0)] }
  \cup (IF data = Null THEN {}
        ELSE { [x |-> p.x, y |-> p.y] : p \in Range(AllPoints(data.roadLine)) })

\* the projection of world point p moves by (dx, dy) pixels from view v to
\* view w, up to rounding
MovesBy(p, v, w, dx, dy) ==
  LET before == worldToCanvas(p.x, p.y, offset, v, N(clientHeight))
      after == worldToCanvas(p.x, p.y, offset, w, N(clientHeight))
  IN  /\ Near(after.x, Add(before.x, dx))
      /\ Near(after.y, Add(before.y, dy))

\* C13: pan(dx, dy) adds dx to translateX, subtracts dy from translateY and
\* leaves scale, offset, bounds, document and selection unchanged, and the
\* projection of every world point moves by (dx, dy) pixels.
C13_PanMovesProjection ==
  [][\A dd \in PanDeltas :
       (Pan(dd[1], dd[2]) /\ calls'["pan"] = calls["pan"] + 1) =>
         /\ translateX' = Add(translateX, dd[1])
         /\ translateY' = Sub(translateY, dd[2])
         /\ UNCHANGED << scale, offset, minX, maxX, minY, maxY, data,
                         selectedRoad >>
         /\ \A p \in WorldPoints : MovesBy(p, View, View', dd[1], dd[2])]_vars

\* the style drawRoadLine is to give a road that is not selected: width 2,
\* colour and dash pattern by the first point
DataStyle(firstPoint) ==
  [lineWidth |-> 2,
   strokeStyle |-> IF firstPoint.LineColor = "standard" THEN "gray"
                   ELSE "white",
   lineDash |-> IF firstPoint.LineType = "broken" THEN << 5, 5 >>
                ELSE << >>]

\* the highlight style
HighlightStyle == [lineWidth |-> 4, strokeStyle |-> "lime", lineDash |-> << >>]

\* C14: in the frame the last draw left, a road has the highlight style
\* (width 4, lime, solid) if and only if it is the selected road, so at most
\* one road is drawn highlighted; every other road drawn has width 2 and
\* the colour and dash pattern of its first point.
C14_HighlightOnlySelected ==
  frame # Null =>
    /\ \A i \in 1..Len(frame.roads) :
         LET r == frame.roads[i]
             style == [lineWidth |-> r.lineWidth,
                       strokeStyle |-> r.strokeStyle,
                       lineDash |-> r.lineDash]
             road == frame.doc.roadLine[r.road]
             isSelected == /\ selectedRoad # Null
                           /\ selectedRoad.current
                           /\ selectedRoad.idx = r.road
         IN  style = IF isSelected THEN HighlightStyle
                     ELSE DataStyle(road.BoundaryPoints[1])
    /\ Cardinality(Highlighted(frame)) <= 1

\* C15: between operations the frame the last draw left is the drawing of
\* the current document, view state, grid flag and selection, on the bitmap
\* as it is and for the size the layout gave the canvas when it was drawn;
\* no frame has been drawn only while nothing has been loaded, zoomed,
\* panned, toggled or selected and no 'resize' event has been handled.
C15_FrameCurrent ==
  IF frame = Null
  THEN /\ data = Null
       /\ View = [scale |-> N(1), translateX |-> Zero(0),
                  translateY |-> Zero(0)]
       /\ ~showGrid
       /\ selectedRoad = Null
       /\ calls["resize"] = 0
  ELSE frame = draw(data, offset, View, canvasWidth, canvasHeight,
                    frame.clientWidth, frame.clientHeight, showGrid,
                    selectedRoad)

\* a frame with the grid and a highlighted road, drawn after a zoom, a
\* toggle of the grid and a selection
C15_Witness ==
  /\ frame # Null
  /\ calls["zoom"] > 0
  /\ calls["grid"] > 0
  /\ showGrid
  /\ frame.grid
  /\ selectedRoad # Null
  /\ selectedRoad.current
  /\ Highlighted(frame) # {}
  /\ frame.view = View

\* every call of loadMapFile has loaded its document, and there were two
\* or more
AllLoaded ==
  /\ Len(requests) >= 2
  /\ \A i \in DOMAIN requests : requests[i].stage = "done"

\* the file of the latest call of loadMapFile
LatestFile == requests[Len(requests)].file

\* C16: once every call of loadMapFile has completed its fetch and loaded
\* its document, the document of the renderer, the status text and the
\* 'file' parameter of the URL are those of the file asked for last, in
\* whatever order the responses arrived.
C16_LatestRequestWins ==
  AllLoaded =>
    /\ data = FileDoc(LatestFile)
    /\ status = StatusLoaded(LatestFile)
    /\ urlFile = LatestFile

=============================================================================
